---- MODULE Spec2Model ----
(***************************************************************************)
(* Model of driverutils: the driver installers (installer.py) and the      *)
(* option builders (helper.py).                                            *)
(*                                                                         *)
(* Strings are sequences of lexemes.  Version numbers are spelled one      *)
(* character per lexeme ("1", ".", "0"); fixed pieces of text that the     *)
(* code never takes apart (a URL prefix, a file name) are one lexeme.      *)
(***************************************************************************)
EXTENDS Integers, Sequences, FiniteSets, TLC

(* ------------------------------------------------------------------ *)
(* Bounds of the model                                                  *)
(* ------------------------------------------------------------------ *)

\* external version queries one installer instance may perform
MaxQueries == 2
\* length of PATH, in lexemes, up to which install() is explored
MaxPathLen == 6
\* keys of a bucket listing (get_download_url, taken alone)
MaxKeys == 3
\* length of the version strings has_require_version is applied to
MaxVerLen == 3
\* arguments a ChromeOptions builder accumulates
MaxArgs == 2

(* ------------------------------------------------------------------ *)
(* Python string operations, on sequences of lexemes                    *)
(* ------------------------------------------------------------------ *)

\* The element of a one-element set.  A value that is used more than once is
\* bound through a one-element set ({e(x) : x \in {v}}), which evaluates it once.
The(S) == CHOOSE x \in S : TRUE

Min(S0) == The({(CHOOSE i \in S : \A j \in S : i <= j) : S \in {S0}})

Max(S0) == The({(CHOOSE i \in S : \A j \in S : j <= i) : S \in {S0}})

\* the k-th smallest element of a set of numbers
Kth(S0, k) == The({(CHOOSE i \in S : Cardinality({j \in S : j <= i}) = k) : S \in {S0}})

Digits == {"0", "1", "2", "3", "4", "5", "6", "7", "8", "9"}

Whitespace == {" ", "\n"}

\* the elements of a sequence
Range(s) == {s[i] : i \in 1..Len(s)}

\* s.startswith(p)
StartsWith(s, p) ==
    /\ Len(p) <= Len(s)
    /\ SubSeq(s, 1, Len(p)) = p

\* s[i:] for 0 <= i
From(s, i) == SubSeq(s, i + 1, Len(s))

\* s.find(sub): the 0-based index of the first occurrence, -1 when there is none
Find(s0, sub0) ==
    The({ The({IF hits = {} THEN -1 ELSE Min(hits) :
                 hits \in {{i \in 0..(Len(s) - Len(sub)) : SubSeq(s, i + 1, i + Len(sub)) = sub}}}) :
          s \in {s0}, sub \in {sub0} })

\* sub in s
Contains(s, sub) == Find(s, sub) # -1

\* s.split(sep) for a one-lexeme separator: the segments between the separators,
\* always at least one
Split(s0, sep) ==
    The({ The({ [k \in 1..(Cardinality(at) + 1) |->
                   SubSeq(s, IF k = 1 THEN 1 ELSE Kth(at, k - 1) + 1,
                             IF k = Cardinality(at) + 1 THEN Len(s) ELSE Kth(at, k) - 1)] :
                at \in {{i \in 1..Len(s) : s[i] = sep}} }) :
          s \in {s0} })

\* the number of lexemes of s, from index i (1-based) on, that lie in class
Run(s, i, class) ==
    Min({j \in i..(Len(s) + 1) : j = Len(s) + 1 \/ s[j] \notin class}) - i

\* s.strip()
Strip(s0) ==
    The({ The({IF keep = {} THEN <<>> ELSE SubSeq(s, Min(keep), Max(keep)) :
                 keep \in {{i \in 1..Len(s) : s[i] \notin Whitespace}}}) :
          s \in {s0} })

\* s.split(): the maximal runs of non-whitespace, in order
SplitWs(s0) ==
    The({ The({ [k \in 1..Cardinality(starts) |->
                   The({SubSeq(s, b, Min({j \in b..(Len(s) + 1) :
                                            j = Len(s) + 1 \/ s[j] \in Whitespace}) - 1) :
                          b \in {Kth(starts, k)}})] :
                starts \in {{i \in 1..Len(s) :
                               /\ s[i] \notin Whitespace
                               /\ (i = 1 \/ s[i - 1] \in Whitespace)}} }) :
          s \in {s0} })

\* s.replace(lexeme, '')
Remove(s, lexeme) == SelectSeq(s, LAMBDA x : x # lexeme)

\* s[:-2]
DropLast2(s) == SubSeq(s, 1, Len(s) - 2)

(* ------------------------------------------------------------------ *)
(* The platform, the files and the remote hosts                        *)
(* ------------------------------------------------------------------ *)

\* values of sys.platform; the interpreter is a 64-bit build (sys.maxsize > 2 ** 32)
Platforms == {"linux", "darwin", "win32", "freebsd"}

Families == {"Chrome", "FireFox", "Ie"}

\* sys.platform.startswith('win')
IsWin(platform) == platform = "win32"

\* platform.machine() on Windows
Machine == <<"AMD", "64">>

\* os.sep and os.pathsep
OsSep(platform) == IF IsWin(platform) THEN "\\" ELSE "/"

\* os.getcwd() and the directory of installer.py, and a directory below each
CwdDir == <<"w">>

PkgDir == <<"p">>

SubDir(dir, platform) == dir \o <<OsSep(platform), "venv">>

\* some other directory of PATH
BinDir == <<"bin">>

\* os.path.join(a, b) for an a that does not end in a separator and a relative b
PathJoin(a, b, platform) == a \o <<OsSep(platform)>> \o b

\* the name of the driver executable inside the published archive
ArchiveMember(family, platform) ==
    CASE family = "Chrome" -> <<"chromedriver">> \o (IF IsWin(platform) THEN <<".exe">> ELSE <<>>)
      [] family = "FireFox" -> <<"geckodriver">> \o (IF IsWin(platform) THEN <<".exe">> ELSE <<>>)
      [] family = "Ie" -> <<"IEDriverServer.exe">>

\* the file system below driver_dir: a function from file names to
\* [exec: the execute bit, ver: the version the binary reports]
NoFiles == [n \in {} |-> [exec |-> FALSE, ver |-> <<>>]]

WriteFile(fs, name, file) ==
    [n \in DOMAIN fs \cup {name} |-> IF n = name THEN file ELSE fs[n]]

\* os.path.isfile(os.path.join(driver_dir, name)): joining '' names the directory
IsFile(fs, name) == name # <<>> /\ name \in DOMAIN fs

\* os.access(os.path.join(driver_dir, name), os.X_OK)
Access(fs, name, platform) ==
    IF name = <<>> THEN TRUE
    ELSE IF name \notin DOMAIN fs THEN FALSE
    ELSE IsWin(platform) \/ fs[name].exec

\* what a driver binary prints for its version flag
DriverBanner(family, ver) ==
    CASE family = "Chrome" -> <<"ChromeDriver", " ">> \o ver \o <<" ", "(", "r", "9", ")", "\n">>
      [] family = "FireFox" ->
            <<"geckodriver", " ">> \o ver \o <<" ", "(", "a", "8", "0", " ", "2", "0", "2", "3", ")", "\n">>
      [] family = "Ie" -> <<"IEDriverServer.exe", " ">> \o ver \o <<" ", "(32-bit)", "\n">>

\* subprocess.check_output([binary_path, flag]): [err, out]
CheckOutput(family, fs, name, platform) ==
    IF name = <<>> THEN [err |-> "PermissionError", out |-> <<>>]
    ELSE IF name \notin DOMAIN fs THEN [err |-> "FileNotFoundError", out |-> <<>>]
    ELSE IF ~Access(fs, name, platform) THEN [err |-> "PermissionError", out |-> <<>>]
    ELSE [err |-> "", out |-> DriverBanner(family, fs[name].ver)]

\* versions of the installed browser, of the published drivers and of the
\* drivers found on disk
V(a, b) == <<a, ".", b>>

V3(a, b, c) == <<a, ".", b, ".", c>>

BrowserVersions == {V("1", "1"), V("2", "1"), V("3", "0")}

ChromeDriverVersions == {V("1", "0"), V("2", "0"), V("2", "1")}

GeckoVersions == {V3("0", "1", "0"), V3("0", "2", "0")}

IeDriverVersions == {<<"3", ".", "1", "5", "0", ".", "1", ".", "0">>,
                     <<"3", ".", "1", "4", "1", ".", "0", ".", "0">>}

DiskVersions(family) ==
    CASE family = "Chrome" -> ChromeDriverVersions
      [] family = "FireFox" -> GeckoVersions
      [] family = "Ie" -> IeDriverVersions

\* the browser's answer to the version query: found is whether the executable
\* could be started, out is what it wrote to stdout
BrowserAnswers(platform) ==
    CASE platform = "linux" ->
            {[found |-> FALSE, out |-> <<>>], [found |-> TRUE, out |-> <<>>]}
            \cup {[found |-> TRUE, out |-> <<"Chromium", " ">> \o v \o <<" ", "\n">>] : v \in BrowserVersions}
            \cup {[found |-> TRUE, out |-> <<"Google Chrome", " ">> \o v \o <<" ", "\n">>] : v \in {V("2", "1")}}
      [] platform = "darwin" ->
            {[found |-> FALSE, out |-> <<>>], [found |-> TRUE, out |-> <<>>]}
            \cup {[found |-> TRUE, out |-> <<"Google Chrome", " ">> \o v \o <<" ", "\n">>] : v \in BrowserVersions}
      [] platform = "win32" ->
            {[found |-> TRUE, out |-> <<>>]}
            \cup {[found |-> TRUE,
                   out |-> <<"\n", "HKEY_CURRENT_USER\\Software\\Google\\Chrome\\BLBeacon", "\n", " ",
                             "version", " ", "REG_SZ", " ">> \o v \o <<"\n", "\n">>] : v \in BrowserVersions}
      [] OTHER -> {[found |-> FALSE, out |-> <<>>]}

\* the keys of the chromedriver bucket listing
Key(ver, file) == ver \o <<"/">> \o file

ChromeZip(platform, architecture) == <<"chromedriver_", platform, architecture, ".zip">>

BucketListing ==
    << Key(V("1", "0"), ChromeZip("linux", "64")), Key(V("1", "0"), ChromeZip("mac", "64")),
       Key(V("1", "0"), ChromeZip("win", "32")),
       Key(V("2", "0"), ChromeZip("linux", "64")), Key(V("2", "0"), ChromeZip("mac", "64")),
       Key(V("2", "0"), ChromeZip("win", "32")),
       Key(V("2", "1"), ChromeZip("linux", "64")), Key(V("2", "1"), ChromeZip("mac", "64")),
       Key(V("2", "1"), ChromeZip("win", "32")),
       <<"LATEST_RELEASE">> >>

\* where releases/latest redirects to
ReleasesUrl == "https://github.com/mozilla/geckodriver/releases"

ReleaseUrls ==
    {<<ReleasesUrl, "/", "tag", "/", "v">> \o v : v \in GeckoVersions}
    \cup {<<ReleasesUrl>>}

\* HTTP status of the archive request
HttpStatus == {200, 404}

(* ------------------------------------------------------------------ *)
(* State                                                                *)
(* ------------------------------------------------------------------ *)

VARIABLES
    family,                 \* the installer class of the instance
    platform,               \* sys.platform
    cwd,                    \* self.cwd
    browser,                \* the installed browser's answer to the version query
    release_url,            \* where geckodriver's releases/latest redirects to
    listing,                \* the keys of the chromedriver bucket listing
    fs,                     \* the files below driver_dir
    environ,                \* os.environ, restricted to PATH
    attr_require_version,   \* the instance attribute _require_version
    attr_current_version,   \* the instance attribute _current_version
    reqQueries,             \* version queries answered for require_version
    curQueries,             \* driver subprocesses run for current_version
    last,                   \* the last call on the instance and its outcome
    builder,                \* the option builder class (helper.py)
    options,                \* its self._options
    optLast                 \* the last call on the builder and its outcome

vars == <<family, platform, cwd, browser, release_url, listing, fs, environ,
          attr_require_version, attr_current_version, reqQueries, curQueries, last,
          builder, options, optLast>>

installerVars == <<family, platform, cwd, browser, release_url, listing, fs, environ,
                   attr_require_version, attr_current_version, reqQueries, curQueries, last>>

optionVars == <<builder, options, optLast>>

\* getattr(self, name, False): the attribute is unset or holds a string
Unset == [set |-> FALSE, v |-> <<>>]

Cached(v) == [set |-> TRUE, v |-> v]

\* what the operations below read of the world, and of the instance
World == [family |-> family, platform |-> platform, cwd |-> cwd, browser |-> browser,
          release_url |-> release_url, listing |-> listing]

Self == [rv |-> attr_require_version, cv |-> attr_current_version,
         rq |-> reqQueries, cq |-> curQueries]

\* the exceptions the installers raise themselves, told apart by their message
ChromeNotInstalled == "Exception: check that Chrome is installed"

NoMatchingDriver == "Exception: not found match driver"

NoGeckoRelease == "Exception: gecko driver version not found"

NoDriverVersion == "Exception: installed driver version not found"

\* a property read or call: it raised err, or returned val; st is the instance after it
Raise(err, st) == [err |-> err, val |-> <<>>, st |-> st]

Return(val, st) == [err |-> "", val |-> val, st |-> st]

(* ------------------------------------------------------------------ *)
(* InstallInterface                                                     *)
(* ------------------------------------------------------------------ *)

driver_dir(w) == IF w.cwd THEN CwdDir ELSE PkgDir

binary_name(w) ==
    CASE w.family = "Chrome" -> IF IsWin(w.platform) THEN <<"chromedriver", ".exe">> ELSE <<>>
      [] w.family = "FireFox" -> IF IsWin(w.platform) THEN <<"geckodriver", ".exe">> ELSE <<>>
      [] w.family = "Ie" -> <<"IEDriverServer.exe">>

binary_path(w) == PathJoin(driver_dir(w), binary_name(w), w.platform)

(* ------------------------------------------------------------------ *)
(* get_platform_architecture                                            *)
(* ------------------------------------------------------------------ *)

ChromeGetPlatformArchitecture(p) ==
    CASE p = "linux" -> [err |-> "", platform |-> "linux", architecture |-> "64"]
      [] p = "darwin" -> [err |-> "", platform |-> "mac", architecture |-> "64"]
      [] IsWin(p) -> [err |-> "", platform |-> "win", architecture |-> "32"]
      [] OTHER -> [err |-> "RuntimeError", platform |-> "", architecture |-> ""]

FireFoxGetPlatformArchitecture(p) ==
    CASE p = "linux" -> [err |-> "", platform |-> "linux", architecture |-> "64"]
      [] p = "darwin" -> [err |-> "", platform |-> "mac", architecture |-> "os"]
      [] IsWin(p) -> [err |-> "", platform |-> "win",
                      architecture |-> IF Machine[Len(Machine)] = "64" THEN "64" ELSE "32"]
      [] OTHER -> [err |-> "RuntimeError", platform |-> "", architecture |-> ""]

(* ------------------------------------------------------------------ *)
(* require_version                                                      *)
(* ------------------------------------------------------------------ *)

\* the version query of the platform: [err, val], val the parsed version
ChromeQueryVersion(w, pa) ==
    CASE pa.platform = "linux" ->
            IF ~w.browser.found THEN [err |-> "FileNotFoundError", val |-> <<>>]
            ELSE [err |-> "",
                  val |-> Strip(Remove(Strip(Remove(w.browser.out, "Chromium")), "Google Chrome"))]
      [] pa.platform = "mac" ->
            IF ~w.browser.found THEN [err |-> "FileNotFoundError", val |-> <<>>]
            ELSE [err |-> "", val |-> Strip(Remove(w.browser.out, "Google Chrome"))]
      [] pa.platform = "win" ->
            The({ IF tokens = <<>> THEN [err |-> "IndexError", val |-> <<>>]
                  ELSE [err |-> "", val |-> tokens[Len(tokens)]] :
                  tokens \in {SplitWs(Strip(w.browser.out))} })

\* require_version as it would be without lines 94-95: the browser is asked at
\* every read
ChromeRequireVersionUncached(w, st) ==
    The({ IF pa.err # "" THEN Raise(pa.err, st)
          ELSE The({ IF r.err = "FileNotFoundError" THEN Raise(r.err, st)
                     ELSE IF r.err # "" THEN Raise(r.err, [st EXCEPT !.rq = @ + 1])
                     ELSE IF r.val # <<>>
                          THEN Return(r.val, [st EXCEPT !.rq = @ + 1, !.rv = Cached(r.val)])
                          ELSE Return(r.val, [st EXCEPT !.rq = @ + 1]) :
                     r \in {ChromeQueryVersion(w, pa)} }) :
          pa \in {ChromeGetPlatformArchitecture(w.platform)} })

\* a cached value is returned as it is; a version that is not empty is cached
\* (rq counts the queries that were answered: a browser that cannot be started
\* answers none)
ChromeRequireVersion(w, st) ==
    IF st.rv.set THEN Return(st.rv.v, st)
    ELSE The({ IF pa.err # "" THEN Raise(pa.err, st)
               ELSE The({ IF r.err = "FileNotFoundError" THEN Raise(r.err, st)
                          ELSE IF r.err # "" THEN Raise(r.err, [st EXCEPT !.rq = @ + 1])
                          ELSE IF r.val # <<>>
                               THEN Return(r.val, [st EXCEPT !.rq = @ + 1, !.rv = Cached(r.val)])
                               ELSE Return(r.val, [st EXCEPT !.rq = @ + 1]) :
                          r \in {ChromeQueryVersion(w, pa)} }) :
               pa \in {ChromeGetPlatformArchitecture(w.platform)} })

IeRequireVersion == <<"3", ".", "1", "5", "0", ".", "1">>

\* url.split('/')[-1]
LastSegment(url) == The({segments[Len(segments)] : segments \in {Split(url, "/")}})

FireFoxRequireVersion(w, st) ==
    IF st.rv.set THEN Return(st.rv.v, st)
    ELSE IF ~Contains(w.release_url, <<"/", "tag", "/">>)
         THEN Raise(NoGeckoRelease, [st EXCEPT !.rq = @ + 1])
         ELSE The({ Return(tag, [st EXCEPT !.rq = @ + 1, !.rv = Cached(tag)]) :
                    tag \in {LastSegment(w.release_url)} })

require_version(w, st) ==
    CASE w.family = "Chrome" -> ChromeRequireVersion(w, st)
      [] w.family = "FireFox" -> FireFoxRequireVersion(w, st)
      [] w.family = "Ie" -> Return(IeRequireVersion, st)

(* ------------------------------------------------------------------ *)
(* current_version                                                      *)
(* ------------------------------------------------------------------ *)

\* re.match(r'.*?([\d.]+).*?', text): group 1, or <<>> when nothing matches
\* ('.' does not match a newline)
ChromeVersionPattern(text0) ==
    The({ The({ IF starts = {} THEN <<>>
                ELSE The({SubSeq(text, i, i + Run(text, i, Digits \cup {"."}) - 1) :
                            i \in {Min(starts)}}) :
                starts \in {{i \in 1..Len(text) :
                               /\ text[i] \in Digits \cup {"."}
                               /\ \A j \in 1..(i - 1) : text[j] # "\n"}} }) :
          text \in {text0} })

\* the length of the match of \d+\.\d+\.\d+ at index i, 0 when there is none
ThreeNumbers(text, i) ==
    The({ IF n1 = 0 \/ i + n1 > Len(text) \/ text[i + n1] # "." THEN 0
          ELSE The({ IF n2 = 0 \/ i + n1 + n2 + 1 > Len(text) \/ text[i + n1 + n2 + 1] # "." THEN 0
                     ELSE The({ IF n3 = 0 THEN 0 ELSE n1 + n2 + n3 + 2 :
                                n3 \in {Run(text, i + n1 + n2 + 2, Digits)} }) :
                     n2 \in {Run(text, i + n1 + 1, Digits)} }) :
          n1 \in {Run(text, i, Digits)} })

\* re.findall(r"gecko.*(\d+\.\d+\.\d+)", text)[0], or <<>> when the list is empty:
\* the greedy .* leaves the group the last place of the line where it matches
GeckoVersionPattern(text0) ==
    The({ The({ IF at = {} THEN <<>>
                ELSE The({ The({SubSeq(text, i, i + ThreeNumbers(text, i) - 1) :
                                  i \in {Max({k[2] : k \in {x \in at : x[1] = g}})}}) :
                           g \in {Min({k[1] : k \in at})} }) :
                at \in {{k \in (1..Len(text)) \X (1..Len(text)) :
                           /\ text[k[1]] = "geckodriver"
                           /\ k[1] < k[2]
                           /\ \A j \in k[1]..(k[2] - 1) : text[j] # "\n"
                           /\ ThreeNumbers(text, k[2]) > 0}} }) :
          text \in {text0} })

ChromeCurrentVersion(w, st, files) ==
    IF st.cv.set THEN Return(st.cv.v, st)
    ELSE The({ IF run.err # "" THEN Raise(run.err, st)
               ELSE The({ IF version = <<>> THEN Raise("TypeError", [st EXCEPT !.cq = @ + 1])
                          ELSE Return(version, [st EXCEPT !.cq = @ + 1, !.cv = Cached(version)]) :
                          version \in {ChromeVersionPattern(run.out)} }) :
               run \in {CheckOutput(w.family, files, binary_name(w), w.platform)} })

IeCurrentVersion(w, st, files) ==
    The({ IF run.err # "" THEN Raise(run.err, st)
          ELSE The({ IF Len(tokens) < 2 THEN Raise("IndexError", [st EXCEPT !.cq = @ + 1])
                     ELSE Return(tokens[2], [st EXCEPT !.cq = @ + 1]) :
                     tokens \in {SplitWs(run.out)} }) :
          run \in {CheckOutput(w.family, files, binary_name(w), w.platform)} })

FireFoxCurrentVersion(w, st, files) ==
    IF st.cv.set THEN Return(st.cv.v, st)
    ELSE The({ IF run.err # "" THEN Raise(run.err, st)
               ELSE The({ IF version = <<>> THEN Raise(NoDriverVersion, [st EXCEPT !.cq = @ + 1])
                          ELSE Return(<<"v">> \o version,
                                      [st EXCEPT !.cq = @ + 1, !.cv = Cached(<<"v">> \o version)]) :
                          version \in {GeckoVersionPattern(run.out)} }) :
               run \in {CheckOutput(w.family, files, binary_name(w), w.platform)} })

current_version(w, st, files) ==
    CASE w.family = "Chrome" -> ChromeCurrentVersion(w, st, files)
      [] w.family = "FireFox" -> FireFoxCurrentVersion(w, st, files)
      [] w.family = "Ie" -> IeCurrentVersion(w, st, files)

(* ------------------------------------------------------------------ *)
(* has_require_version                                                  *)
(* ------------------------------------------------------------------ *)

\* the comparison as it would be on the whole strings
WholeVersionsMatch(required, current) == required = current

\* self.require_version.split(".")[0] == self.current_version.split(".")[0]
ChromeVersionsMatch(required, current) == Split(required, ".")[1] = Split(current, ".")[1]

\* self.require_version == self.current_version[:-2]
IeVersionsMatch(required, current) == required = DropLast2(current)

\* self.current_version == self.require_version
FireFoxVersionsMatch(required, current) == current = required

\* the operands are read left to right; val is the comparison's result
has_require_version(w, st, files) ==
    IF w.family = "FireFox"
    THEN The({ IF c.err # "" THEN Raise(c.err, c.st)
               ELSE The({ IF r.err # "" THEN Raise(r.err, r.st)
                          ELSE [err |-> "", val |-> FireFoxVersionsMatch(r.val, c.val), st |-> r.st] :
                          r \in {require_version(w, c.st)} }) :
               c \in {current_version(w, st, files)} })
    ELSE The({ IF r.err # "" THEN Raise(r.err, r.st)
               ELSE The({ IF c.err # "" THEN Raise(c.err, c.st)
                          ELSE [err |-> "",
                                val |-> IF w.family = "Chrome" THEN ChromeVersionsMatch(r.val, c.val)
                                        ELSE IeVersionsMatch(r.val, c.val),
                                st |-> c.st] :
                          c \in {current_version(w, r.st, files)} }) :
               r \in {require_version(w, st)} })

(* ------------------------------------------------------------------ *)
(* get_download_url                                                     *)
(* ------------------------------------------------------------------ *)

ChromeBaseUrl == "https://chromedriver.storage.googleapis.com/"

IeBaseUrl == "https://selenium-release.storage.googleapis.com/"

GeckoBaseUrl == "https://github.com/mozilla/geckodriver/releases/download/"

\* the matching keys as a loop without its return would leave them: last one first
LastMatchingKeys(keys, major_version) ==
    The({ [i \in 1..Len(m) |-> m[Len(m) + 1 - i]] :
          m \in {SelectSeq(keys, LAMBDA k : Find(k, major_version \o <<".">>) = 0)} })

\* the keys k, in the listing's order, with k.text.find(major_version + '.') == 0
MatchingKeys(keys, major_version) ==
    SelectSeq(keys, LAMBDA k : Find(k, major_version \o <<".">>) = 0)

\* the URL built from the first matching key; <<>> when the loop ends without one
ChromeResolveUrl(keys, required, pa) ==
    The({ IF found = <<>> THEN <<>>
          ELSE <<ChromeBaseUrl>> \o Split(found[1], "/")[1]
                   \o <<"/", "chromedriver_">> \o <<pa.platform>> \o <<pa.architecture>> \o <<".zip">> :
          found \in {MatchingKeys(keys, Split(required, ".")[1])} })

ChromeGetDownloadUrl(w, st) ==
    The({ IF pa.err # "" THEN Raise(pa.err, st)
          ELSE The({ IF r.err # "" THEN Raise(r.err, r.st)
                     ELSE The({ IF url = <<>> THEN Raise(NoMatchingDriver, r.st) ELSE Return(url, r.st) :
                                url \in {ChromeResolveUrl(w.listing, r.val, pa)} }) :
                     r \in {ChromeRequireVersion(w, st)} }) :
          pa \in {ChromeGetPlatformArchitecture(w.platform)} })

IeGetDownloadUrl(w, st) ==
    Return(<<IeBaseUrl>> \o DropLast2(IeRequireVersion) \o <<"/", "IEDriverServer_Win32_">>
               \o IeRequireVersion \o <<".zip">>, st)

FireFoxGetDownloadUrl(w, st) ==
    The({ IF pa.err # "" THEN Raise(pa.err, st)
          ELSE The({ IF r.err # "" THEN Raise(r.err, r.st)
                     ELSE Return(<<GeckoBaseUrl>> \o r.val \o <<"/", "geckodriver-">> \o r.val
                                     \o <<"-", pa.platform, pa.architecture, ".">>
                                     \o (IF pa.platform = "win" THEN <<"zip">> ELSE <<"tar", ".", "gz">>),
                                 r.st) :
                     r \in {FireFoxRequireVersion(w, st)} }) :
          pa \in {FireFoxGetPlatformArchitecture(w.platform)} })

get_download_url(w, st) ==
    CASE w.family = "Chrome" -> ChromeGetDownloadUrl(w, st)
      [] w.family = "FireFox" -> FireFoxGetDownloadUrl(w, st)
      [] w.family = "Ie" -> IeGetDownloadUrl(w, st)

(* ------------------------------------------------------------------ *)
(* download                                                             *)
(* ------------------------------------------------------------------ *)

\* the archive a release host serves at url: the one executable it holds and
\* the version that executable reports
RemoteArchive(w, url) ==
    The({ [member |-> ArchiveMember(w.family, w.platform),
           ver |-> CASE w.family = "Chrome" -> path[1]
                     [] w.family = "FireFox" -> Tail(path[1])
                     [] w.family = "Ie" -> SubSeq(path[2], 2, Len(path[2]) - 1) \o <<".", "0">>] :
          path \in {Split(Tail(url), "/")} })

\* zip_file.extract / tar.extract of name: a zip member is written without its
\* mode (an existing file keeps its own), a tar member with it
Extract(w, files, name, archive) ==
    WriteFile(files, name,
              [exec |-> IF w.family = "FireFox" /\ ~IsWin(w.platform) THEN TRUE
                        ELSE IF name \in DOMAIN files THEN files[name].exec ELSE FALSE,
               ver |-> archive.ver])

\* if not os.access(self.binary_path, os.X_OK): os.chmod(self.binary_path, 0o744)
Chmod(w, files, name) ==
    IF Access(files, name, w.platform) THEN files
    ELSE [files EXCEPT ![name].exec = TRUE]

\* download() as it would start without lines 148-149: an empty version goes on
PrecheckWithoutEmptyTest(w, st) ==
    IF w.family # "Chrome" THEN Return(<<>>, st)
    ELSE The({ IF r.err # "" THEN Raise(r.err, r.st) ELSE Return(r.val, r.st) :
               r \in {ChromeRequireVersion(w, st)} })

\* if not self.require_version: raise Exception(...)      (ChromeInstaller only)
DownloadPrecheck(w, st) ==
    IF w.family # "Chrome" THEN Return(<<>>, st)
    ELSE The({ IF r.err # "" THEN Raise(r.err, r.st)
               ELSE IF r.val = <<>> THEN Raise(ChromeNotInstalled, r.st)
               ELSE Return(r.val, r.st) :
               r \in {ChromeRequireVersion(w, st)} })

\* not os.path.isfile(self.binary_path) or not self.has_require_version()
NeedsDownload(w, st, files) ==
    IF ~IsFile(files, binary_name(w)) THEN [err |-> "", val |-> TRUE, st |-> st]
    ELSE The({ IF h.err # "" THEN [err |-> h.err, val |-> FALSE, st |-> h.st]
               ELSE [err |-> "", val |-> ~h.val, st |-> h.st] :
               h \in {has_require_version(w, st, files)} })

\* the outcome of download(): fetched is whether the archive was requested
Downloaded(w, err, st, files, fetched) ==
    [err |-> err, val |-> IF err = "" THEN binary_path(w) ELSE <<>>,
     st |-> st, fs |-> files, fetched |-> fetched]

\* the request of the archive, its extraction and the mode of the binary
FetchAndExtract(w, st, files, status, name) ==
    The({ IF url.err # "" THEN Downloaded(w, url.err, url.st, files, FALSE)
          ELSE IF status # 200 THEN Downloaded(w, "URLError", url.st, files, TRUE)
          ELSE The({ IF name # archive.member THEN Downloaded(w, "KeyError", url.st, files, TRUE)
                     ELSE Downloaded(w, "", url.st,
                                     Chmod(w, Extract(w, files, name, archive), name), TRUE) :
                     archive \in {RemoteArchive(w, url.val)} }) :
          url \in {get_download_url(w, st)} })

download(w, st, files, status) ==
    The({ IF pre.err # "" THEN Downloaded(w, pre.err, pre.st, files, FALSE)
          ELSE The({ IF need.err # "" THEN Downloaded(w, need.err, need.st, files, FALSE)
                     ELSE IF ~need.val
                          THEN Downloaded(w, "", need.st, Chmod(w, files, binary_name(w)), FALSE)
                          ELSE FetchAndExtract(w, need.st, files, status, binary_name(w)) :
                     need \in {NeedsDownload(w, pre.st, files)} }) :
          pre \in {DownloadPrecheck(w, st)} })

(* ------------------------------------------------------------------ *)
(* install                                                              *)
(* ------------------------------------------------------------------ *)

NoEnviron == [k \in {} |-> <<>>]

SetPath(value) == [k \in {"PATH"} |-> value]

\* self.driver_dir + ";" if sys.platform.startswith('win') else ":" + os.environ['PATH']
ExtendedPath(w, env) ==
    IF IsWin(w.platform) THEN driver_dir(w) \o <<";">> ELSE <<":">> \o env["PATH"]

\* the part of install() after download() has returned
UpdatePath(w, env) ==
    IF "PATH" \notin DOMAIN env THEN SetPath(driver_dir(w))
    ELSE IF ~Contains(env["PATH"], driver_dir(w)) THEN SetPath(ExtendedPath(w, env))
    ELSE env

(* ------------------------------------------------------------------ *)
(* What a call leaves behind for the properties below                  *)
(* ------------------------------------------------------------------ *)

\* os.pathsep, and the entries of a PATH value
PathSep(p) == IF IsWin(p) THEN ";" ELSE ":"

Entries(env, p) == IF "PATH" \in DOMAIN env THEN {e : e \in Range(Split(env["PATH"], PathSep(p)))} ELSE {}

\* the version a driver binary of version ver reports, as current_version reads it
Reported(fam, ver) == IF fam = "FireFox" THEN <<"v">> \o ver ELSE ver

\* the segment of a version before its first '.'
RECURSIVE Major(_)
Major(v) == IF v = <<>> \/ Head(v) = "." THEN <<>> ELSE <<Head(v)>> \o Major(Tail(v))

\* the families' rules for "the current version matches the required one"
FamilyRule(fam, required, current) ==
    CASE fam = "Chrome" -> Major(required) = Major(current)
      [] fam = "FireFox" -> required = current
      [] fam = "Ie" -> /\ Len(current) >= 2
                       /\ required = SubSeq(current, 1, Len(current) - 2)

\* exact equality, as the re-download invariant words the rule for Firefox and IE
RedownloadRule(fam, required, current) ==
    IF fam = "Chrome" THEN Major(required) = Major(current) ELSE required = current

\* the version the instance requires, read without touching the instance
Required == require_version(World, [Self EXCEPT !.rq = 0])

\* the driver executable is in driver_dir and reports a version matching the required one
DriverPresentAndMatching ==
    LET name == ArchiveMember(family, platform)
    IN  /\ name \in DOMAIN fs
        /\ Required.err = "" /\ Required.val # <<>>
        /\ FamilyRule(family, Required.val, Reported(family, fs[name].ver))

\* a fetch is called for: no file at binary_path, or the file there reports a
\* version that does not match the required one
FetchCalledFor(required) ==
    \/ ~IsFile(fs, binary_name(World))
    \/ ~RedownloadRule(family, required, Reported(family, fs[binary_name(World)].ver))

\* the record of a call: its outcome, and the state it started from
Outcome(op, err, ret, fetched, status, justified) ==
    [op |-> op, again |-> last.op = op, err |-> err, ret |-> ret,
     fetched |-> fetched, status |-> IF fetched THEN status ELSE 200, justified |-> justified,
     present |-> ArchiveMember(family, platform) \in DOMAIN fs,
     matched |-> DriverPresentAndMatching, path |-> environ]

Commit(st) ==
    /\ attr_require_version' = st.rv
    /\ attr_current_version' = st.cv
    /\ reqQueries' = st.rq
    /\ curQueries' = st.cq

Budget == reqQueries < MaxQueries /\ curQueries < MaxQueries

world == <<family, platform, cwd, browser, release_url, listing>>

(* ------------------------------------------------------------------ *)
(* The calls on an installer instance                                   *)
(* ------------------------------------------------------------------ *)

ReadRequireVersion ==
    /\ Budget
    /\ \E r \in {require_version(World, Self)} :
           /\ Commit(r.st)
           /\ last' = Outcome("require_version", r.err, r.val, FALSE, 200, TRUE)
    /\ UNCHANGED <<world, fs, environ, optionVars>>

ReadCurrentVersion ==
    /\ Budget
    /\ \E r \in {current_version(World, Self, fs)} :
           /\ Commit(r.st)
           /\ last' = Outcome("current_version", r.err, r.val, FALSE, 200, TRUE)
    /\ UNCHANGED <<world, fs, environ, optionVars>>

CallHasRequireVersion ==
    /\ Budget
    /\ \E r \in {has_require_version(World, Self, fs)} :
           /\ Commit(r.st)
           /\ last' = Outcome("has_require_version", r.err,
                              IF r.err # "" THEN <<>> ELSE IF r.val THEN <<"True">> ELSE <<"False">>,
                              FALSE, 200, TRUE)
    /\ UNCHANGED <<world, fs, environ, optionVars>>

ReadGetDownloadUrl ==
    /\ Budget
    /\ \E r \in {get_download_url(World, Self)} :
           /\ Commit(r.st)
           /\ last' = Outcome("get_download_url", r.err, r.val, FALSE, 200, TRUE)
    /\ UNCHANGED <<world, fs, environ, optionVars>>

Download ==
    /\ Budget
    /\ \E status \in HttpStatus :
         \E d \in {download(World, Self, fs, status)} :
             /\ Commit(d.st)
             /\ fs' = d.fs
             /\ last' = Outcome("download", d.err, d.val, d.fetched, status,
                                d.fetched => FetchCalledFor(require_version(World, d.st).val))
    /\ UNCHANGED <<world, environ, optionVars>>

Install ==
    /\ Budget
    /\ "PATH" \in DOMAIN environ => Len(environ["PATH"]) < MaxPathLen
    /\ \E status \in HttpStatus :
         \E d \in {download(World, Self, fs, status)} :
             /\ Commit(d.st)
             /\ fs' = d.fs
             /\ environ' = IF d.err # "" THEN environ ELSE UpdatePath(World, environ)
             /\ last' = Outcome("install", d.err, d.val, d.fetched, status,
                                d.fetched => FetchCalledFor(require_version(World, d.st).val))
    /\ UNCHANGED <<world, optionVars>>

(* ------------------------------------------------------------------ *)
(* Initial states                                                       *)
(* ------------------------------------------------------------------ *)

NoCall == [op |-> "new", again |-> FALSE, err |-> "", ret |-> <<>>,
           fetched |-> FALSE, status |-> 200, justified |-> TRUE,
           present |-> FALSE, matched |-> FALSE, path |-> NoEnviron]

\* the option builders take no part in the installer's behaviour
NoBuilder ==
    /\ builder = "none"
    /\ options = <<>>
    /\ optLast = <<>>

\* values PATH may have when the instance is made
InitialPaths(dir, p) ==
    {NoEnviron, SetPath(BinDir), SetPath(dir), SetPath(BinDir \o <<PathSep(p)>> \o dir),
     SetPath(SubDir(dir, p))}

Init ==
    /\ family \in Families
    /\ platform \in Platforms
    /\ cwd \in BOOLEAN
    /\ browser \in (IF family = "Chrome" THEN BrowserAnswers(platform)
                    ELSE {[found |-> FALSE, out |-> <<>>]})
    /\ release_url \in (IF family = "FireFox" THEN ReleaseUrls ELSE {<<ReleasesUrl>>})
    /\ listing = BucketListing
    /\ fs \in {NoFiles}
              \cup {WriteFile(NoFiles, ArchiveMember(family, platform), [exec |-> e, ver |-> v]) :
                      e \in (IF IsWin(platform) THEN {TRUE} ELSE BOOLEAN),
                      v \in DiskVersions(family)}
    /\ environ \in InitialPaths(IF cwd THEN CwdDir ELSE PkgDir, platform)
    /\ attr_require_version = Unset
    /\ attr_current_version = Unset
    /\ reqQueries = 0
    /\ curQueries = 0
    /\ last = NoCall
    /\ NoBuilder

Next ==
    \/ ReadRequireVersion
    \/ ReadCurrentVersion
    \/ CallHasRequireVersion
    \/ ReadGetDownloadUrl
    \/ Download
    \/ Install

Spec == Init /\ [][Next]_vars

(* ------------------------------------------------------------------ *)
(* Properties of the installers                                         *)
(* ------------------------------------------------------------------ *)

SupportedPlatforms == {"linux", "darwin", "win32"}

\* C1: download() is idempotent: a second download() in a row, started with the
\* driver binary present in the installer directory and reporting a version that
\* matches the required one by the family's rule, fetches no archive.
C1_DownloadIdempotent ==
    (last.op = "download" /\ last.again /\ last.matched) => ~last.fetched

\* C2: every fetch of the driver archive happens in a state where no file is at
\* binary_path, or the binary on disk reports a version that does not match the
\* required one (same major version for Chrome, equality for Firefox and IE).
C2_FetchOnlyWhenCalledFor ==
    last.fetched => last.justified

\* C3: after install() returns, driver_dir is an entry of PATH and the value
\* returned is binary_path.
C3_InstallPutsDirOnPath ==
    (last.op = "install" /\ last.err = "") =>
        /\ driver_dir(World) \in Entries(environ, platform)
        /\ last.ret = binary_path(World)

\* C4: with cwd=True, install() run where the current directory lacks the binary
\* (the release is resolvable and the archive request answers 200) completes and
\* returns <cwd>/<the driver's file name>; the file then exists and, off Windows,
\* is executable.
C4_InstallInCwd ==
    ( /\ cwd /\ family \in {"Chrome", "FireFox"}
      /\ last.op = "install" /\ ~last.present /\ last.status = 200
      /\ get_download_url(World, Self).err = "" )
    => /\ last.err = ""
       /\ last.ret = PathJoin(CwdDir, ArchiveMember(family, platform), platform)
       /\ ArchiveMember(family, platform) \in DOMAIN fs
       /\ (~IsWin(platform) => fs[ArchiveMember(family, platform)].exec)

\* the installed browser is missing, or its version query prints nothing
BrowserUnavailable == ~browser.found \/ browser.out = <<>>

\* C6 as stated: for ChromeInstaller on a supported platform, with the browser
\* missing or silent, reading require_version ends in an error.
C6_RequireVersionRaises ==
    ( /\ family = "Chrome" /\ platform \in SupportedPlatforms /\ BrowserUnavailable
      /\ last.op = "require_version" )
    => last.err # ""

\* C6 as amended: for ChromeInstaller on a supported platform, with the browser
\* missing or silent, download() and install() end in an error before any archive
\* is requested and nothing is cached; require_version itself raises when the
\* browser cannot be started or the registry query prints nothing, and returns
\* the empty string when the browser runs but prints nothing (linux, macOS),
\* which download() turns into its "check that Chrome is installed" error.
C6_DetectionFails ==
    (family = "Chrome" /\ platform \in SupportedPlatforms /\ BrowserUnavailable) =>
        /\ attr_require_version = Unset
        /\ last.op \in {"download", "install"} =>
              /\ ~last.fetched
              /\ last.err = (IF IsWin(platform) THEN "IndexError"
                             ELSE IF ~browser.found THEN "FileNotFoundError"
                             ELSE ChromeNotInstalled)
        /\ last.op = "require_version" =>
              IF browser.found /\ ~IsWin(platform)
              THEN last.err = "" /\ last.ret = <<>>
              ELSE last.err # ""

C6_Witness ==
    /\ family = "Chrome" /\ platform = "linux" /\ browser.found /\ browser.out = <<>>
    /\ last.op = "download" /\ last.err = ChromeNotInstalled

\* C8 as stated: on a ChromeInstaller or FireFoxInstaller instance the external
\* query behind require_version and the one behind current_version are each
\* performed at most once.
C8_QueriedAtMostOnce ==
    family \in {"Chrome", "FireFox"} => (reqQueries <= 1 /\ curQueries <= 1)

\* one step of an instance whose version fields behave as C8, amended, says
CachedOnceStep ==
    family \in {"Chrome", "FireFox"} =>
          /\ attr_require_version.set =>
                /\ reqQueries' = reqQueries
                /\ attr_require_version' = attr_require_version
                /\ last'.op = "require_version" =>
                      (last'.err = "" /\ last'.ret = attr_require_version.v)
          /\ attr_current_version.set =>
                /\ curQueries' = curQueries
                /\ attr_current_version' = attr_current_version
                /\ last'.op = "current_version" =>
                      (last'.err = "" /\ last'.ret = attr_current_version.v)
          /\ (~attr_require_version.set /\ attr_require_version'.set) =>
                reqQueries' = reqQueries + 1
          /\ (~attr_current_version.set /\ attr_current_version'.set) =>
                curQueries' = curQueries + 1
          /\ (last'.op = "require_version" /\ last'.err = "" /\ last'.ret # <<>>) =>
                attr_require_version' = Cached(last'.ret)
          /\ (last'.op = "current_version" /\ last'.err = "") =>
                attr_current_version' = Cached(last'.ret)

\* C8 as amended: on a ChromeInstaller or FireFoxInstaller instance, once a
\* version field is cached (by a read that returned a value; for Chrome's
\* require_version, a value that is not empty) its external query is not
\* performed again, the field keeps its value and every later read returns it;
\* a field is only ever cached by a step that performs its query.
C8_CachedOnce == [][CachedOnceStep]_vars

C8_Witness ==
    /\ family \in {"Chrome", "FireFox"}
    /\ last.op = "require_version" /\ last.again /\ last.err = ""
    /\ attr_require_version.set /\ reqQueries = 1
    /\ attr_current_version.set /\ curQueries = 1

\* C10: install() only extends PATH: every entry PATH held before the call is an
\* entry after it, and PATH is left as it was when driver_dir was already an entry.
C10_InstallOnlyExtendsPath ==
    last.op = "install" =>
        /\ Entries(last.path, platform) \subseteq Entries(environ, platform)
        /\ (driver_dir(World) \in Entries(last.path, platform) => environ = last.path)

(* ------------------------------------------------------------------ *)
(* get_download_url on its own: any listing, any installed browser     *)
(* ------------------------------------------------------------------ *)

\* the sequences over S of length at most n
SeqsUpTo(S, n) == UNION {[1..k -> S] : k \in 0..n}

\* the archive of the running platform, as the bucket names it
PlatformZip(p) ==
    LET pa == ChromeGetPlatformArchitecture(IF p \in SupportedPlatforms THEN p ELSE "linux")
    IN  ChromeZip(pa.platform, pa.architecture)

\* keys a listing is made of
ListingKeys(p) ==
    {Key(v, PlatformZip(p)) : v \in ChromeDriverVersions} \cup {<<"LATEST_RELEASE">>}

InitUrl ==
    /\ family = "Chrome"
    /\ platform \in Platforms
    /\ cwd = FALSE
    /\ browser \in BrowserAnswers(platform)
    /\ release_url = <<ReleasesUrl>>
    /\ listing \in SeqsUpTo(ListingKeys(platform), MaxKeys)
    /\ fs = NoFiles
    /\ environ = NoEnviron
    /\ attr_require_version = Unset
    /\ attr_current_version = Unset
    /\ reqQueries = 0
    /\ curQueries = 0
    /\ last = NoCall
    /\ NoBuilder

NextUrl == ReadGetDownloadUrl

SpecUrl == InitUrl /\ [][NextUrl]_vars

\* the key "V/chromedriver_<platform><arch>.zip" of the required version V
ExactKey == Key(attr_require_version.v, PlatformZip(platform))

\* the places of the listing whose key begins with V's major version and a '.'
SameMajor ==
    {i \in 1..Len(listing) :
        /\ attr_require_version.set
        /\ StartsWith(listing[i], Major(attr_require_version.v) \o <<".">>)}

\* the text of a key before its first '/'
Directory(k) == IF "/" \in Range(k) THEN SubSeq(k, 1, Min({i \in 1..Len(k) : k[i] = "/"}) - 1) ELSE k

\* get_download_url was read with the exact key of the required version listed
ExactKeyListed ==
    /\ last.op = "get_download_url" /\ platform \in SupportedPlatforms
    /\ attr_require_version.set
    /\ ExactKey \in Range(listing)

\* C5 as stated: whenever the listing holds the key V/chromedriver_<platform><arch>.zip,
\* in any position, the resolved URL is the base URL followed by exactly that key.
C5_ResolvesExactKey ==
    ExactKeyListed => (last.err = "" /\ last.ret = <<ChromeBaseUrl>> \o ExactKey)

\* C5 as amended: whenever the listing holds the key V/chromedriver_<platform><arch>.zip,
\* the resolved URL is the base URL followed by D/chromedriver_<platform><arch>.zip,
\* D being the directory of the first key of the listing that begins with V's
\* major version and a '.'; it is the base URL followed by exactly the key of V
\* when no key of the same major version and another directory comes before it.
C5_ResolvesFirstOfMajor ==
    ExactKeyListed =>
        /\ last.err = ""
        /\ last.ret = <<ChromeBaseUrl>> \o Directory(listing[Min(SameMajor)])
                          \o <<"/">> \o PlatformZip(platform)
        /\ (\A i \in SameMajor : Directory(listing[i]) = attr_require_version.v)
              => last.ret = <<ChromeBaseUrl>> \o ExactKey

\* the exact key is listed after a key of the same major version and another directory
C5_Witness ==
    /\ ExactKeyListed
    /\ \E i \in SameMajor : Directory(listing[i]) # attr_require_version.v
    /\ last.err = ""

(* ------------------------------------------------------------------ *)
(* has_require_version on its own: any two version strings             *)
(* ------------------------------------------------------------------ *)

VersionChars == {"1", "2", "."}

\* the version strings of 1 to MaxVerLen characters
VersionStrings == SeqsUpTo(VersionChars, MaxVerLen) \ {<<>>}

GeckoTags == {<<"v">> \o V3(a, b, c) : a \in {"1", "2"}, b \in {"1", "2"}, c \in {"1", "2"}}

\* what an IEDriverServer.exe may report
IeReports ==
    VersionStrings \cup {IeRequireVersion}
    \cup {IeRequireVersion \o <<a, b>> : a \in VersionChars, b \in VersionChars}

InitVer ==
    /\ family \in Families
    /\ platform = "win32"
    /\ cwd = FALSE
    /\ browser = [found |-> TRUE, out |-> <<>>]
    /\ release_url = <<ReleasesUrl>>
    /\ listing = BucketListing
    /\ environ = NoEnviron
    /\ reqQueries = 0
    /\ curQueries = 0
    /\ last = NoCall
    /\ NoBuilder
    /\ CASE family = "Chrome" ->
              /\ fs = NoFiles
              /\ attr_require_version \in {Cached(v) : v \in VersionStrings}
              /\ attr_current_version \in {Cached(v) : v \in VersionStrings}
         [] family = "FireFox" ->
              /\ fs = NoFiles
              /\ attr_require_version \in {Cached(v) : v \in GeckoTags}
                                          \cup {Cached(<<"v">> \o v) : v \in VersionStrings}
              /\ attr_current_version \in {Cached(v) : v \in GeckoTags}
         [] family = "Ie" ->
              /\ fs \in {WriteFile(NoFiles, <<"IEDriverServer.exe">>, [exec |-> TRUE, ver |-> v]) :
                           v \in IeReports}
              /\ attr_require_version = Unset
              /\ attr_current_version = Unset

NextVer == CallHasRequireVersion

SpecVer == InitVer /\ [][NextVer]_vars

\* the required and the current version has_require_version compared
RequiredString == IF family = "Ie" THEN IeRequireVersion ELSE attr_require_version.v

CurrentString ==
    IF family = "Ie" THEN fs[<<"IEDriverServer.exe">>].ver ELSE attr_current_version.v

\* C7: has_require_version() returns true if and only if the family's rule holds
\* between the required and the current version: for Chrome the segments before
\* the first '.' are equal; for Firefox the two strings are equal; for IE the
\* required version equals the current version with its last two characters removed.
C7_HasRequireVersionIsTheRule ==
    last.op = "has_require_version" =>
        /\ last.err = ""
        /\ last.ret = <<"True">> <=> FamilyRule(family, RequiredString, CurrentString)

\* ChromeInstaller has answered true for two versions that are not equal
C7_Witness ==
    /\ last.op = "has_require_version" /\ last.ret = <<"True">>
    /\ family = "Chrome" /\ RequiredString # CurrentString

(* ------------------------------------------------------------------ *)
(* The option builders (helper.py)                                      *)
(* ------------------------------------------------------------------ *)

\* RemoteConnection.set_timeout(Timeout(total=30))
RemoteTimeout == 30

\* a mapping from names to values, empty, and with one name set
NoSettings == [k \in {} |-> ""]

Set(settings, name, value) ==
    [k \in DOMAIN settings \cup {name} |-> IF k = name THEN value ELSE settings[k]]

\* self._options: the arguments, the experimental options and the attributes of
\* the options object, the preferences of its profile, the preferences written
\* to the profile's file, and the timeout of the remote connection
Options(arguments, experimental, attributes, preferences) ==
    [arguments |-> arguments, experimental |-> experimental, attributes |-> attributes,
     preferences |-> preferences, written |-> NoSettings, timeout |-> <<>>]

IeInitOptions ==
    Options(<<>>, NoSettings,
            Set(Set(NoSettings, "ignore_zoom_level", "True"),
                "ignore_protected_mode_settings", "True"),
            NoSettings)

ChromeInitOptions ==
    [Options(<<"--disable-blink-features=AutomationControlled">>,
             Set(Set(NoSettings, "excludeSwitches", "enable-automation"),
                 "useAutomationExtension", "False"),
             NoSettings, NoSettings)
     EXCEPT !.timeout = <<RemoteTimeout>>]

FirefoxInitOptions ==
    Options(<<>>, NoSettings, NoSettings,
            Set(Set(NoSettings, "dom.webdriver.enabled", "False"),
                "useAutomationExtension", "False"))

init_options(b) ==
    CASE b = "IeOptions" -> IeInitOptions
      [] b = "ChromeOptions" -> ChromeInitOptions
      [] b = "FirefoxOptions" -> FirefoxInitOptions

Builders == {"IeOptions", "ChromeOptions", "FirefoxOptions"}

UserAgents == {"agent/1", "agent/2"}

Urls == {"https://example.com", "https://google.com", "about:blank"}

\* set_user_agent(user_agent): the options after the call
IeSetUserAgent(o, user_agent) == o

ChromeSetUserAgent(o, user_agent) ==
    [o EXCEPT !.arguments = Append(@, "user-agent=" \o user_agent)]

FirefoxSetUserAgent(o, user_agent) ==
    [o EXCEPT !.preferences = Set(@, "general.useragent.override", user_agent)]

\* set_start_url(url): the options after the call
IeSetStartUrl(o, url) == [o EXCEPT !.attributes = Set(@, "initial_browser_url", url)]

ChromeSetStartUrl(o, url) == o

FirefoxSetStartUrl(o, url) ==
    [o EXCEPT !.preferences =
        Set(Set(Set(@, "browser.startup.homepage", "https://google.com"),
                "browser.startup.blankWindow", "False"),
            "browser.startup.page", "1")]

\* build(): FirefoxOptions writes the profile's preferences first
FirefoxBuild(o) == [o EXCEPT !.written = o.preferences]

\* a call on the builder: what it printed and what it returned
Called(op, arg, notice, ret) == [op |-> op, arg |-> arg, notice |-> notice, ret |-> ret]

SetUserAgent ==
    /\ \E user_agent \in UserAgents :
         /\ builder = "ChromeOptions" => Len(options.arguments) <= MaxArgs
         /\ options' = CASE builder = "IeOptions" -> IeSetUserAgent(options, user_agent)
                         [] builder = "ChromeOptions" -> ChromeSetUserAgent(options, user_agent)
                         [] builder = "FirefoxOptions" -> FirefoxSetUserAgent(options, user_agent)
         /\ optLast' = Called("set_user_agent", user_agent, builder = "IeOptions", "self")
    /\ UNCHANGED <<builder, installerVars>>

SetStartUrl ==
    /\ \E url \in Urls :
         /\ options' = CASE builder = "IeOptions" -> IeSetStartUrl(options, url)
                         [] builder = "ChromeOptions" -> ChromeSetStartUrl(options, url)
                         [] builder = "FirefoxOptions" -> FirefoxSetStartUrl(options, url)
         /\ optLast' = Called("set_start_url", url, builder = "ChromeOptions", "self")
    /\ UNCHANGED <<builder, installerVars>>

Build ==
    /\ options' = IF builder = "FirefoxOptions" THEN FirefoxBuild(options) ELSE options
    /\ optLast' = Called("build", "", FALSE, "options")
    /\ UNCHANGED <<builder, installerVars>>

\* no installer takes part in the builders' behaviour
NoInstaller ==
    /\ family = "Chrome"
    /\ platform = "linux"
    /\ cwd = FALSE
    /\ browser = [found |-> FALSE, out |-> <<>>]
    /\ release_url = <<ReleasesUrl>>
    /\ listing = BucketListing
    /\ fs = NoFiles
    /\ environ = NoEnviron
    /\ attr_require_version = Unset
    /\ attr_current_version = Unset
    /\ reqQueries = 0
    /\ curQueries = 0
    /\ last = NoCall

InitOpt ==
    /\ NoInstaller
    /\ builder \in Builders
    /\ options = init_options(builder)
    /\ optLast = Called("__init__", "", builder = "IeOptions", "self")

NextOpt ==
    \/ SetUserAgent
    \/ SetStartUrl
    \/ Build

SpecOpt == InitOpt /\ [][NextOpt]_vars

\* C9: FirefoxOptions.set_start_url(url) leaves the profile with the homepage
\* preference equal to the given url, the blank-start-window preference disabled
\* and the startup mode set to "show homepage" (1), and returns the builder.
C9_SetStartUrlSetsHomepage ==
    (builder = "FirefoxOptions" /\ optLast.op = "set_start_url") =>
        /\ options.preferences["browser.startup.homepage"] = optLast.arg
        /\ options.preferences["browser.startup.blankWindow"] = "False"
        /\ options.preferences["browser.startup.page"] = "1"
        /\ optLast.ret = "self"

====
